---- MODULE Spec2Model ----
(***************************************************************************)
(* Levenshtein distance and alignments of two sequences, as computed by    *)
(* src/src/lvnshnforitr/levenshtein.py: the module-level functions         *)
(* distance, align and align_all (flat integer costs) and the class        *)
(* CustomizedLevenshtein (caller-supplied cost functions).                 *)
(*                                                                         *)
(* Python's 0-based seq[k] is the 1-based seq[k + 1] here; dp_table and    *)
(* dp_index_memo keep their 0-based row/column indices.                    *)
(***************************************************************************)
EXTENDS Integers, Sequences, FiniteSets

\* Longest input sequence drawn.
MaxLen == 3
\* The elements of the input sequences (opaque values compared by ==).
Items == {1, 2}

\* Python's None, the gap marker of an alignment pair; no element of Items.
None == -1

RECURSIVE SeqsUpTo(_)
SeqsUpTo(n) ==
    IF n = 0 THEN {<<>>}
    ELSE LET shorter == SeqsUpTo(n - 1)
         IN  shorter \cup {Append(s, x) : s \in {t \in shorter : Len(t) = n - 1}, x \in Items}

\* Every input sequence of the bounded model.
InputSeqs == SeqsUpTo(MaxLen)

\* The flat costs drawn for insert_cost, delete_cost and replace_cost.
Costs == {0, 1, 2}

VARIABLES
    before,    \* the call's first argument (seq1, "Before")
    after,     \* the call's second argument (seq2, "After")
    kwargs,    \* the keyword arguments insert_cost, delete_cost, replace_cost
    lvnshtn,   \* the CustomizedLevenshtein instance (its four callables)
    fn,        \* the function or method called last ("none" before any call;
               \* "align.while" and "align_all.while" while its backtracking runs)
    ret,       \* what that call returned
    raised,    \* whether that call raised an exception instead of returning
    locals     \* the local variables of a call whose backtracking is running

vars == <<before, after, kwargs, lvnshtn, fn, ret, raised, locals>>

(***************************************************************************)
(* Python built-ins the functions use.                                     *)
(***************************************************************************)

\* Python's int(item1 != item2)
IsReplaced(item1, item2) == IF item1 # item2 THEN 1 ELSE 0

\* Python's min(a, b, c)
Min3(a, b, c) == IF a <= b /\ a <= c THEN a ELSE IF b <= c THEN b ELSE c

(***************************************************************************)
(* distance                                                                *)
(***************************************************************************)

\* A slip of the initialisation: the rows' insert costs are left out.
DistanceInitTableNoInsert(len_str1, len_str2, insert_cost, delete_cost) ==
    [row_idx \in 0..len_str2 |-> [col_idx \in 0..len_str1 |-> col_idx * delete_cost]]

\* dp_table = [[col_idx * delete_cost + row_idx * insert_cost ...] ...]
DistanceInitTable(len_str1, len_str2, insert_cost, delete_cost) ==
    [row_idx \in 0..len_str2 |->
        [col_idx \in 0..len_str1 |-> col_idx * delete_cost + row_idx * insert_cost]]

\* A slip of the loop body: the delete candidate is left out of the minimum.
DistanceCellNoDelete(dp_table, str1, str2, col_idx, row_idx, insert_cost, delete_cost, replace_cost) ==
    LET a == dp_table[row_idx][col_idx + 1] + insert_cost
        c == dp_table[row_idx][col_idx]
                + replace_cost * IsReplaced(str1[col_idx + 1], str2[row_idx + 1])
    IN  [dp_table EXCEPT ![row_idx + 1][col_idx + 1] = IF a <= c THEN a ELSE c]

\* The body of distance's nested loop for one (col_idx, row_idx).
DistanceCell(dp_table, str1, str2, col_idx, row_idx, insert_cost, delete_cost, replace_cost) ==
    [dp_table EXCEPT ![row_idx + 1][col_idx + 1] =
        Min3(dp_table[row_idx][col_idx + 1] + insert_cost,
             dp_table[row_idx + 1][col_idx] + delete_cost,
             dp_table[row_idx][col_idx]
                + replace_cost * IsReplaced(str1[col_idx + 1], str2[row_idx + 1]))]

\* for col_idx, item1 in enumerate(str1): for row_idx, item2 in enumerate(str2):
\* the k-th iteration has col_idx = k \div len(str2), row_idx = k % len(str2).
RECURSIVE DistanceLoop(_, _, _, _, _, _, _)
DistanceLoop(dp_table, str1, str2, k, insert_cost, delete_cost, replace_cost) ==
    IF k >= Len(str1) * Len(str2) THEN dp_table
    ELSE DistanceLoop(
            DistanceCell(dp_table, str1, str2, k \div Len(str2), k % Len(str2),
                         insert_cost, delete_cost, replace_cost),
            str1, str2, k + 1, insert_cost, delete_cost, replace_cost)

distance(str1, str2, insert_cost, delete_cost, replace_cost) ==
    DistanceLoop(DistanceInitTable(Len(str1), Len(str2), insert_cost, delete_cost),
                 str1, str2, 0, insert_cost, delete_cost, replace_cost)[Len(str2)][Len(str1)]

(***************************************************************************)
(* align                                                                   *)
(***************************************************************************)

\* dp_table = [[col_idx * delete_cost + row_idx * insert_cost ...] ...]
AlignInitTable(len_str1, len_str2, insert_cost, delete_cost) ==
    [row_idx \in 0..len_str2 |->
        [col_idx \in 0..len_str1 |-> col_idx * delete_cost + row_idx * insert_cost]]

\* dp_index_memo = [[(-1, -1) ...] ...]
InitMemo(len_str1, len_str2) ==
    [row_idx \in 0..len_str2 |-> [col_idx \in 0..len_str1 |-> <<-1, -1>>]]

\* A slip of the chain: the insert candidate is compared with the delete
\* candidate only, so it is stored even where the diagonal one is cheaper.
StoreBestIgnoresReplace(st, row_idx, col_idx, cost_if_inserted, cost_if_deleted, cost_if_replaced) ==
    IF cost_if_inserted <= cost_if_deleted
        THEN [dp_table      |-> [st.dp_table EXCEPT ![row_idx + 1][col_idx + 1] = cost_if_inserted],
              dp_index_memo |-> [st.dp_index_memo EXCEPT ![row_idx + 1][col_idx + 1] = <<row_idx, col_idx + 1>>]]
    ELSE IF cost_if_deleted <= cost_if_replaced
        THEN [dp_table      |-> [st.dp_table EXCEPT ![row_idx + 1][col_idx + 1] = cost_if_deleted],
              dp_index_memo |-> [st.dp_index_memo EXCEPT ![row_idx + 1][col_idx + 1] = <<row_idx + 1, col_idx>>]]
    ELSE [dp_table      |-> [st.dp_table EXCEPT ![row_idx + 1][col_idx + 1] = cost_if_replaced],
          dp_index_memo |-> [st.dp_index_memo EXCEPT ![row_idx + 1][col_idx + 1] = <<row_idx, col_idx>>]]

\* A slip of the chain: the delete candidate is tested before the insert one.
StoreBestDeleteFirst(st, row_idx, col_idx, cost_if_inserted, cost_if_deleted, cost_if_replaced) ==
    IF cost_if_deleted <= cost_if_inserted /\ cost_if_deleted <= cost_if_replaced
        THEN [dp_table      |-> [st.dp_table EXCEPT ![row_idx + 1][col_idx + 1] = cost_if_deleted],
              dp_index_memo |-> [st.dp_index_memo EXCEPT ![row_idx + 1][col_idx + 1] = <<row_idx + 1, col_idx>>]]
    ELSE IF cost_if_inserted <= cost_if_deleted /\ cost_if_inserted <= cost_if_replaced
        THEN [dp_table      |-> [st.dp_table EXCEPT ![row_idx + 1][col_idx + 1] = cost_if_inserted],
              dp_index_memo |-> [st.dp_index_memo EXCEPT ![row_idx + 1][col_idx + 1] = <<row_idx, col_idx + 1>>]]
    ELSE [dp_table      |-> [st.dp_table EXCEPT ![row_idx + 1][col_idx + 1] = cost_if_replaced],
          dp_index_memo |-> [st.dp_index_memo EXCEPT ![row_idx + 1][col_idx + 1] = <<row_idx, col_idx>>]]

\* A slip of the chain: the comparisons are strict, so that on a tie of the
\* cheapest candidates no branch is taken and the cell's predecessor stays unset.
StoreBestStrict(st, row_idx, col_idx, cost_if_inserted, cost_if_deleted, cost_if_replaced) ==
    IF cost_if_inserted < cost_if_deleted /\ cost_if_inserted < cost_if_replaced
        THEN [dp_table      |-> [st.dp_table EXCEPT ![row_idx + 1][col_idx + 1] = cost_if_inserted],
              dp_index_memo |-> [st.dp_index_memo EXCEPT ![row_idx + 1][col_idx + 1] = <<row_idx, col_idx + 1>>]]
    ELSE IF cost_if_deleted < cost_if_inserted /\ cost_if_deleted < cost_if_replaced
        THEN [dp_table      |-> [st.dp_table EXCEPT ![row_idx + 1][col_idx + 1] = cost_if_deleted],
              dp_index_memo |-> [st.dp_index_memo EXCEPT ![row_idx + 1][col_idx + 1] = <<row_idx + 1, col_idx>>]]
    ELSE IF cost_if_replaced < cost_if_inserted /\ cost_if_replaced < cost_if_deleted
        THEN [dp_table      |-> [st.dp_table EXCEPT ![row_idx + 1][col_idx + 1] = cost_if_replaced],
              dp_index_memo |-> [st.dp_index_memo EXCEPT ![row_idx + 1][col_idx + 1] = <<row_idx, col_idx>>]]
    ELSE st

\* The if/elif/elif chain that stores one candidate and its predecessor.
StoreBest(st, row_idx, col_idx, cost_if_inserted, cost_if_deleted, cost_if_replaced) ==
    IF cost_if_inserted <= cost_if_deleted /\ cost_if_inserted <= cost_if_replaced
        THEN [dp_table      |-> [st.dp_table EXCEPT ![row_idx + 1][col_idx + 1] = cost_if_inserted],
              dp_index_memo |-> [st.dp_index_memo EXCEPT ![row_idx + 1][col_idx + 1] = <<row_idx, col_idx + 1>>]]
    ELSE IF cost_if_deleted <= cost_if_inserted /\ cost_if_deleted <= cost_if_replaced
        THEN [dp_table      |-> [st.dp_table EXCEPT ![row_idx + 1][col_idx + 1] = cost_if_deleted],
              dp_index_memo |-> [st.dp_index_memo EXCEPT ![row_idx + 1][col_idx + 1] = <<row_idx + 1, col_idx>>]]
    ELSE IF cost_if_replaced <= cost_if_inserted /\ cost_if_replaced <= cost_if_deleted
        THEN [dp_table      |-> [st.dp_table EXCEPT ![row_idx + 1][col_idx + 1] = cost_if_replaced],
              dp_index_memo |-> [st.dp_index_memo EXCEPT ![row_idx + 1][col_idx + 1] = <<row_idx, col_idx>>]]
    ELSE st

\* The body of align's nested loop for one (col_idx, row_idx);
\* st = [dp_table, dp_index_memo].
AlignCell(st, seq1, seq2, col_idx, row_idx, insert_cost, delete_cost, replace_cost) ==
    StoreBest(st, row_idx, col_idx,
              st.dp_table[row_idx][col_idx + 1] + insert_cost,
              st.dp_table[row_idx + 1][col_idx] + delete_cost,
              st.dp_table[row_idx][col_idx]
                + replace_cost * IsReplaced(seq1[col_idx + 1], seq2[row_idx + 1]))

RECURSIVE AlignFill(_, _, _, _, _, _, _)
AlignFill(st, seq1, seq2, k, insert_cost, delete_cost, replace_cost) ==
    IF k >= Len(seq1) * Len(seq2) THEN st
    ELSE AlignFill(
            AlignCell(st, seq1, seq2, k \div Len(seq2), k % Len(seq2),
                      insert_cost, delete_cost, replace_cost),
            seq1, seq2, k + 1, insert_cost, delete_cost, replace_cost)

\* dp_table and dp_index_memo as align has them when its nested loop ends.
AlignTables(seq1, seq2, insert_cost, delete_cost, replace_cost) ==
    AlignFill([dp_table      |-> AlignInitTable(Len(seq1), Len(seq2), insert_cost, delete_cost),
               dp_index_memo |-> InitMemo(Len(seq1), Len(seq2))],
              seq1, seq2, 0, insert_cost, delete_cost, replace_cost)

\* One iteration of `while row_idx > 0 and col_idx > 0`: prepend an insertion,
\* a deletion or a diagonal pair and move to the recorded predecessor;
\* bt = [row_idx, col_idx, alignments_q].
AlignStep(dp_index_memo, seq1, seq2, bt) ==
    LET row_idx      == bt.row_idx
        col_idx      == bt.col_idx
        previous_idx == dp_index_memo[row_idx][col_idx]
        pair ==
            IF previous_idx[1] + 1 = row_idx /\ previous_idx[2] = col_idx
                THEN <<None, seq2[row_idx]>>
            ELSE IF previous_idx[1] = row_idx /\ previous_idx[2] + 1 = col_idx
                THEN <<seq1[col_idx], None>>
            ELSE <<seq1[col_idx], seq2[row_idx]>>
    IN  [row_idx      |-> previous_idx[1],
         col_idx      |-> previous_idx[2],
         alignments_q |-> <<pair>> \o bt.alignments_q]

RECURSIVE AlignWhile(_, _, _, _)
AlignWhile(dp_index_memo, seq1, seq2, bt) ==
    IF bt.row_idx > 0 /\ bt.col_idx > 0
        THEN AlignWhile(dp_index_memo, seq1, seq2, AlignStep(dp_index_memo, seq1, seq2, bt))
        ELSE bt

\* A slip of the final flush: the remaining prefix is dropped.
AlignFlushNothing(seq1, seq2, row_idx, col_idx, alignments_list) == alignments_list

\* if row_idx > 0: [(None, item2) for item2 in seq2[:row_idx]] + alignments_list
\* elif col_idx > 0: [(item1, None) for item1 in seq1[:col_idx]] + alignments_list
AlignFlush(seq1, seq2, row_idx, col_idx, alignments_list) ==
    IF row_idx > 0
        THEN [k \in 1..row_idx |-> <<None, seq2[k]>>] \o alignments_list
    ELSE IF col_idx > 0
        THEN [k \in 1..col_idx |-> <<seq1[k], None>>] \o alignments_list
    ELSE alignments_list

\* The backtracking of align and the flush of the remaining prefix.
AlignBacktrack(dp_index_memo, seq1, seq2) ==
    LET bt == AlignWhile(dp_index_memo, seq1, seq2,
                         [row_idx |-> Len(seq2), col_idx |-> Len(seq1), alignments_q |-> <<>>])
    IN  AlignFlush(seq1, seq2, bt.row_idx, bt.col_idx, bt.alignments_q)

align(seq1, seq2, insert_cost, delete_cost, replace_cost) ==
    AlignBacktrack(AlignTables(seq1, seq2, insert_cost, delete_cost, replace_cost).dp_index_memo,
              seq1, seq2)

(***************************************************************************)
(* align_all                                                               *)
(***************************************************************************)

\* dp_table = [[col_idx * delete_cost + row_idx * insert_cost ...] ...]
AlignAllInitTable(len_str1, len_str2, insert_cost, delete_cost) ==
    [row_idx \in 0..len_str2 |->
        [col_idx \in 0..len_str1 |-> col_idx * delete_cost + row_idx * insert_cost]]

\* dp_index_memo = [[[] ...] ...]
InitMemoAll(len_str1, len_str2) ==
    [row_idx \in 0..len_str2 |-> [col_idx \in 0..len_str1 |-> <<>>]]

\* A slip of the three `if`s: written as if/elif/elif, so that only the first
\* minimal candidate's predecessor is recorded.
StoreAllBestFirstOnly(st, row_idx, col_idx, cost_if_inserted, cost_if_deleted, cost_if_replaced) ==
    LET least_possible_cost == Min3(cost_if_inserted, cost_if_deleted, cost_if_replaced)
        previous_idx ==
            IF cost_if_inserted = least_possible_cost THEN <<row_idx, col_idx + 1>>
            ELSE IF cost_if_deleted = least_possible_cost THEN <<row_idx + 1, col_idx>>
            ELSE <<row_idx, col_idx>>
    IN  [dp_table      |-> [st.dp_table EXCEPT ![row_idx + 1][col_idx + 1] = least_possible_cost],
         dp_index_memo |-> [st.dp_index_memo EXCEPT ![row_idx + 1][col_idx + 1] =
                               Append(st.dp_index_memo[row_idx + 1][col_idx + 1], previous_idx)]]

\* The three `if`s that append every minimal candidate's predecessor, in the
\* order insert, delete, replace, and the store of the minimum.
StoreAllBest(st, row_idx, col_idx, cost_if_inserted, cost_if_deleted, cost_if_replaced) ==
    LET least_possible_cost == Min3(cost_if_inserted, cost_if_deleted, cost_if_replaced)
        m0 == st.dp_index_memo[row_idx + 1][col_idx + 1]
        m1 == IF cost_if_inserted = least_possible_cost
                THEN Append(m0, <<row_idx, col_idx + 1>>) ELSE m0
        m2 == IF cost_if_deleted = least_possible_cost
                THEN Append(m1, <<row_idx + 1, col_idx>>) ELSE m1
        m3 == IF cost_if_replaced = least_possible_cost
                THEN Append(m2, <<row_idx, col_idx>>) ELSE m2
    IN  [dp_table      |-> [st.dp_table EXCEPT ![row_idx + 1][col_idx + 1] = least_possible_cost],
         dp_index_memo |-> [st.dp_index_memo EXCEPT ![row_idx + 1][col_idx + 1] = m3]]

\* The body of align_all's nested loop for one (col_idx, row_idx).
AlignAllCell(st, seq1, seq2, col_idx, row_idx, insert_cost, delete_cost, replace_cost) ==
    StoreAllBest(st, row_idx, col_idx,
                 st.dp_table[row_idx][col_idx + 1] + insert_cost,
                 st.dp_table[row_idx + 1][col_idx] + delete_cost,
                 st.dp_table[row_idx][col_idx]
                    + replace_cost * IsReplaced(seq1[col_idx + 1], seq2[row_idx + 1]))

RECURSIVE AlignAllFill(_, _, _, _, _, _, _)
AlignAllFill(st, seq1, seq2, k, insert_cost, delete_cost, replace_cost) ==
    IF k >= Len(seq1) * Len(seq2) THEN st
    ELSE AlignAllFill(
            AlignAllCell(st, seq1, seq2, k \div Len(seq2), k % Len(seq2),
                         insert_cost, delete_cost, replace_cost),
            seq1, seq2, k + 1, insert_cost, delete_cost, replace_cost)

\* dp_table and dp_index_memo as align_all has them when its nested loop ends.
AlignAllTables(seq1, seq2, insert_cost, delete_cost, replace_cost) ==
    AlignAllFill([dp_table      |-> AlignAllInitTable(Len(seq1), Len(seq2), insert_cost, delete_cost),
                  dp_index_memo |-> InitMemoAll(Len(seq1), Len(seq2))],
                 seq1, seq2, 0, insert_cost, delete_cost, replace_cost)

\* The flush of a finished branch (the same two cases as in align).
AlignAllFlush(seq1, seq2, row_idx, col_idx, alignments_list) ==
    IF row_idx > 0
        THEN [k \in 1..row_idx |-> <<None, seq2[k]>>] \o alignments_list
    ELSE IF col_idx > 0
        THEN [k \in 1..col_idx |-> <<seq1[k], None>>] \o alignments_list
    ELSE alignments_list

\* The pair a branch prepends on the move from (row_idx, col_idx) to previous_idx.
AlignAllPair(seq1, seq2, row_idx, col_idx, previous_idx) ==
    IF previous_idx[1] + 1 = row_idx /\ previous_idx[2] = col_idx
        THEN <<None, seq2[row_idx]>>
    ELSE IF previous_idx[1] = row_idx /\ previous_idx[2] + 1 = col_idx
        THEN <<seq1[col_idx], None>>
    ELSE <<seq1[col_idx], seq2[row_idx]>>

\* A slip of the search: the first entry is popped (a queue), not the last.
AlignAllStepPopsFirst(dp_index_memo, seq1, seq2, dfs) ==
    LET stack        == dfs.state_stack_for_dfs
        top          == stack[1]
        rest         == SubSeq(stack, 2, Len(stack))
        row_idx      == top[1]
        col_idx      == top[2]
        alignments_q == top[3]
        previous     == dp_index_memo[row_idx][col_idx]
    IN  IF row_idx > 0 /\ col_idx > 0
            THEN [state_stack_for_dfs |->
                      rest \o [k \in 1..Len(previous) |->
                                  <<previous[k][1], previous[k][2],
                                    <<AlignAllPair(seq1, seq2, row_idx, col_idx, previous[k])>>
                                        \o alignments_q>>],
                  result |-> dfs.result]
            ELSE [state_stack_for_dfs |-> rest,
                  result |-> Append(dfs.result,
                                    AlignAllFlush(seq1, seq2, row_idx, col_idx, alignments_q))]

\* A slip of the search: where several predecessors are recorded the loop
\* misses the first.
AlignAllStepSkipsFirst(dp_index_memo, seq1, seq2, dfs) ==
    LET stack        == dfs.state_stack_for_dfs
        top          == stack[Len(stack)]
        rest         == SubSeq(stack, 1, Len(stack) - 1)
        row_idx      == top[1]
        col_idx      == top[2]
        alignments_q == top[3]
        recorded     == dp_index_memo[row_idx][col_idx]
        previous     == IF Len(recorded) > 1 THEN Tail(recorded) ELSE recorded
    IN  IF row_idx > 0 /\ col_idx > 0
            THEN [state_stack_for_dfs |->
                      rest \o [k \in 1..Len(previous) |->
                                  <<previous[k][1], previous[k][2],
                                    <<AlignAllPair(seq1, seq2, row_idx, col_idx, previous[k])>>
                                        \o alignments_q>>],
                  result |-> dfs.result]
            ELSE [state_stack_for_dfs |-> rest,
                  result |-> Append(dfs.result,
                                    AlignAllFlush(seq1, seq2, row_idx, col_idx, alignments_q))]

\* One iteration of `while state_stack_for_dfs`: pop the last entry; at an
\* interior cell push one entry per recorded predecessor, in the memo's order;
\* at a boundary cell flush and append to result.
\* dfs = [state_stack_for_dfs, result]; a stack entry is <<row_idx, col_idx, alignments_q>>.
AlignAllStep(dp_index_memo, seq1, seq2, dfs) ==
    LET stack        == dfs.state_stack_for_dfs
        top          == stack[Len(stack)]
        rest         == SubSeq(stack, 1, Len(stack) - 1)
        row_idx      == top[1]
        col_idx      == top[2]
        alignments_q == top[3]
        previous     == dp_index_memo[row_idx][col_idx]
    IN  IF row_idx > 0 /\ col_idx > 0
            THEN [state_stack_for_dfs |->
                      rest \o [k \in 1..Len(previous) |->
                                  <<previous[k][1], previous[k][2],
                                    <<AlignAllPair(seq1, seq2, row_idx, col_idx, previous[k])>>
                                        \o alignments_q>>],
                  result |-> dfs.result]
            ELSE [state_stack_for_dfs |-> rest,
                  result |-> Append(dfs.result,
                                    AlignAllFlush(seq1, seq2, row_idx, col_idx, alignments_q))]

RECURSIVE AlignAllWhile(_, _, _, _)
AlignAllWhile(dp_index_memo, seq1, seq2, dfs) ==
    IF dfs.state_stack_for_dfs # <<>>
        THEN AlignAllWhile(dp_index_memo, seq1, seq2,
                           AlignAllStep(dp_index_memo, seq1, seq2, dfs))
        ELSE dfs

\* The depth-first search of align_all from (len_str2, len_str1).
BacktrackAll(dp_index_memo, seq1, seq2) ==
    AlignAllWhile(dp_index_memo, seq1, seq2,
                  [state_stack_for_dfs |-> << <<Len(seq2), Len(seq1), <<>>>> >>,
                   result |-> <<>>]).result

align_all(seq1, seq2, insert_cost, delete_cost, replace_cost) ==
    BacktrackAll(AlignAllTables(seq1, seq2, insert_cost, delete_cost, replace_cost).dp_index_memo,
                 seq1, seq2)

(***************************************************************************)
(* CustomizedLevenshtein: the callables and the table both methods build.  *)
(* A callable is a function on the values it is defined for; applying it   *)
(* to any other value raises.                                              *)
(***************************************************************************)

\* int(not is_equal(item1, item2))
CustomIsReplaced(self, item1, item2) == IF self.is_equal[<<item1, item2>>] THEN 0 ELSE 1

\* The arguments the table's initialisation applies delete_cost to:
\* seq1[col_idx - 1] for every col_idx > 0.
InitDeleteCostArgs(seq1, seq2) == {seq1[col_idx] : col_idx \in 1..Len(seq1)}

\* The arguments the table's initialisation applies insert_cost to:
\* seq2[row_idx - 1] if row_idx > 0 else 0, for every row_idx in range(len_str2 + 1).
InitInsertCostArgs(seq1, seq2) ==
    {IF row_idx > 0 THEN seq2[row_idx] ELSE 0 : row_idx \in 0..Len(seq2)}

\* Whether a method call raises: some callable is applied outside its domain
\* (the nested loop applies the callables to the same elements, and to pairs
\* of them).
CustomRaises(self, seq1, seq2) ==
    \/ \E a \in InitDeleteCostArgs(seq1, seq2) : a \notin DOMAIN self.delete_cost
    \/ \E a \in InitInsertCostArgs(seq1, seq2) : a \notin DOMAIN self.insert_cost
    \/ \E a \in InitDeleteCostArgs(seq1, seq2), b \in InitInsertCostArgs(seq1, seq2) \ {0} :
          \/ <<a, b>> \notin DOMAIN self.is_equal
          \/ <<a, b>> \notin DOMAIN self.replace_cost

\* A slip of the initialisation: the costs are not multiplied by the indices.
CustomInitTableNoIndex(self, seq1, seq2) ==
    [row_idx \in 0..Len(seq2) |->
        [col_idx \in 0..Len(seq1) |->
            (IF col_idx > 0 THEN self.delete_cost[seq1[col_idx]] ELSE 0)
            + self.insert_cost[IF row_idx > 0 THEN seq2[row_idx] ELSE 0]]]

\* dp_table = [[(col_idx * delete_cost(seq1[col_idx - 1]) if col_idx > 0 else 0)
\*              + (row_idx * insert_cost(seq2[row_idx - 1] if row_idx > 0 else 0)) ...] ...]
CustomInitTable(self, seq1, seq2) ==
    [row_idx \in 0..Len(seq2) |->
        [col_idx \in 0..Len(seq1) |->
            (IF col_idx > 0 THEN col_idx * self.delete_cost[seq1[col_idx]] ELSE 0)
            + row_idx * self.insert_cost[IF row_idx > 0 THEN seq2[row_idx] ELSE 0]]]

(***************************************************************************)
(* CustomizedLevenshtein.align                                             *)
(***************************************************************************)

\* dp_index_memo = [[(-1, -1) ...] ...]
CustomInitMemo(len_str1, len_str2) ==
    [row_idx \in 0..len_str2 |-> [col_idx \in 0..len_str1 |-> <<-1, -1>>]]

\* The if/elif/elif chain that stores one candidate and its predecessor.
CustomStoreBest(st, row_idx, col_idx, cost_if_inserted, cost_if_deleted, cost_if_replaced) ==
    IF cost_if_inserted <= cost_if_deleted /\ cost_if_inserted <= cost_if_replaced
        THEN [dp_table      |-> [st.dp_table EXCEPT ![row_idx + 1][col_idx + 1] = cost_if_inserted],
              dp_index_memo |-> [st.dp_index_memo EXCEPT ![row_idx + 1][col_idx + 1] = <<row_idx, col_idx + 1>>]]
    ELSE IF cost_if_deleted <= cost_if_inserted /\ cost_if_deleted <= cost_if_replaced
        THEN [dp_table      |-> [st.dp_table EXCEPT ![row_idx + 1][col_idx + 1] = cost_if_deleted],
              dp_index_memo |-> [st.dp_index_memo EXCEPT ![row_idx + 1][col_idx + 1] = <<row_idx + 1, col_idx>>]]
    ELSE IF cost_if_replaced <= cost_if_inserted /\ cost_if_replaced <= cost_if_deleted
        THEN [dp_table      |-> [st.dp_table EXCEPT ![row_idx + 1][col_idx + 1] = cost_if_replaced],
              dp_index_memo |-> [st.dp_index_memo EXCEPT ![row_idx + 1][col_idx + 1] = <<row_idx, col_idx>>]]
    ELSE st

\* The body of CustomizedLevenshtein.align's nested loop for one (col_idx, row_idx);
\* st = [dp_table, dp_index_memo].
CustomAlignCell(st, self, seq1, seq2, col_idx, row_idx) ==
    CustomStoreBest(st, row_idx, col_idx,
              st.dp_table[row_idx][col_idx + 1] + self.insert_cost[seq2[row_idx + 1]],
              st.dp_table[row_idx + 1][col_idx] + self.delete_cost[seq1[col_idx + 1]],
              st.dp_table[row_idx][col_idx]
                + self.replace_cost[<<seq1[col_idx + 1], seq2[row_idx + 1]>>]
                    * CustomIsReplaced(self, seq1[col_idx + 1], seq2[row_idx + 1]))

RECURSIVE CustomAlignFill(_, _, _, _, _)
CustomAlignFill(st, self, seq1, seq2, k) ==
    IF k >= Len(seq1) * Len(seq2) THEN st
    ELSE CustomAlignFill(
            CustomAlignCell(st, self, seq1, seq2, k \div Len(seq2), k % Len(seq2)),
            self, seq1, seq2, k + 1)

\* dp_table and dp_index_memo as CustomizedLevenshtein.align has them when its nested loop ends.
CustomAlignTables(self, seq1, seq2) ==
    CustomAlignFill([dp_table      |-> CustomInitTable(self, seq1, seq2),
               dp_index_memo |-> CustomInitMemo(Len(seq1), Len(seq2))],
              self, seq1, seq2, 0)

\* One iteration of `while row_idx > 0 and col_idx > 0`: prepend an insertion,
\* a deletion or a diagonal pair and move to the recorded predecessor;
\* bt = [row_idx, col_idx, alignments_q].
CustomAlignStep(dp_index_memo, seq1, seq2, bt) ==
    LET row_idx      == bt.row_idx
        col_idx      == bt.col_idx
        previous_idx == dp_index_memo[row_idx][col_idx]
        pair ==
            IF previous_idx[1] + 1 = row_idx /\ previous_idx[2] = col_idx
                THEN <<None, seq2[row_idx]>>
            ELSE IF previous_idx[1] = row_idx /\ previous_idx[2] + 1 = col_idx
                THEN <<seq1[col_idx], None>>
            ELSE <<seq1[col_idx], seq2[row_idx]>>
    IN  [row_idx      |-> previous_idx[1],
         col_idx      |-> previous_idx[2],
         alignments_q |-> <<pair>> \o bt.alignments_q]

RECURSIVE CustomAlignWhile(_, _, _, _)
CustomAlignWhile(dp_index_memo, seq1, seq2, bt) ==
    IF bt.row_idx > 0 /\ bt.col_idx > 0
        THEN CustomAlignWhile(dp_index_memo, seq1, seq2, CustomAlignStep(dp_index_memo, seq1, seq2, bt))
        ELSE bt

\* if row_idx > 0: [(None, item2) for item2 in seq2[:row_idx]] + alignments_list
\* elif col_idx > 0: [(item1, None) for item1 in seq1[:col_idx]] + alignments_list
CustomAlignFlush(seq1, seq2, row_idx, col_idx, alignments_list) ==
    IF row_idx > 0
        THEN [k \in 1..row_idx |-> <<None, seq2[k]>>] \o alignments_list
    ELSE IF col_idx > 0
        THEN [k \in 1..col_idx |-> <<seq1[k], None>>] \o alignments_list
    ELSE alignments_list

\* The backtracking of CustomizedLevenshtein.align and the flush of the remaining prefix.
CustomAlignBacktrack(dp_index_memo, seq1, seq2) ==
    LET bt == CustomAlignWhile(dp_index_memo, seq1, seq2,
                         [row_idx |-> Len(seq2), col_idx |-> Len(seq1), alignments_q |-> <<>>])
    IN  CustomAlignFlush(seq1, seq2, bt.row_idx, bt.col_idx, bt.alignments_q)

CustomizedLevenshtein_align(self, seq1, seq2) ==
    CustomAlignBacktrack(CustomAlignTables(self, seq1, seq2).dp_index_memo,
              seq1, seq2)

(***************************************************************************)
(* CustomizedLevenshtein.align_all                                         *)
(***************************************************************************)

\* dp_index_memo = [[[] ...] ...]
CustomInitMemoAll(len_str1, len_str2) ==
    [row_idx \in 0..len_str2 |-> [col_idx \in 0..len_str1 |-> <<>>]]

\* The three `if`s that append every minimal candidate's predecessor, in the
\* order insert, delete, replace, and the store of the minimum.
CustomStoreAllBest(st, row_idx, col_idx, cost_if_inserted, cost_if_deleted, cost_if_replaced) ==
    LET least_possible_cost == Min3(cost_if_inserted, cost_if_deleted, cost_if_replaced)
        m0 == st.dp_index_memo[row_idx + 1][col_idx + 1]
        m1 == IF cost_if_inserted = least_possible_cost
                THEN Append(m0, <<row_idx, col_idx + 1>>) ELSE m0
        m2 == IF cost_if_deleted = least_possible_cost
                THEN Append(m1, <<row_idx + 1, col_idx>>) ELSE m1
        m3 == IF cost_if_replaced = least_possible_cost
                THEN Append(m2, <<row_idx, col_idx>>) ELSE m2
    IN  [dp_table      |-> [st.dp_table EXCEPT ![row_idx + 1][col_idx + 1] = least_possible_cost],
         dp_index_memo |-> [st.dp_index_memo EXCEPT ![row_idx + 1][col_idx + 1] = m3]]

\* The body of CustomizedLevenshtein.align_all's nested loop for one (col_idx, row_idx).
CustomAlignAllCell(st, self, seq1, seq2, col_idx, row_idx) ==
    CustomStoreAllBest(st, row_idx, col_idx,
                 st.dp_table[row_idx][col_idx + 1] + self.insert_cost[seq2[row_idx + 1]],
                 st.dp_table[row_idx + 1][col_idx] + self.delete_cost[seq1[col_idx + 1]],
                 st.dp_table[row_idx][col_idx]
                    + self.replace_cost[<<seq1[col_idx + 1], seq2[row_idx + 1]>>]
                    * CustomIsReplaced(self, seq1[col_idx + 1], seq2[row_idx + 1]))

RECURSIVE CustomAlignAllFill(_, _, _, _, _)
CustomAlignAllFill(st, self, seq1, seq2, k) ==
    IF k >= Len(seq1) * Len(seq2) THEN st
    ELSE CustomAlignAllFill(
            CustomAlignAllCell(st, self, seq1, seq2, k \div Len(seq2), k % Len(seq2)),
            self, seq1, seq2, k + 1)

\* dp_table and dp_index_memo as CustomizedLevenshtein.align_all has them when its nested loop ends.
CustomAlignAllTables(self, seq1, seq2) ==
    CustomAlignAllFill([dp_table      |-> CustomInitTable(self, seq1, seq2),
                  dp_index_memo |-> CustomInitMemoAll(Len(seq1), Len(seq2))],
                 self, seq1, seq2, 0)

\* The flush of a finished branch (the same two cases as in align).
CustomAlignAllFlush(seq1, seq2, row_idx, col_idx, alignments_list) ==
    IF row_idx > 0
        THEN [k \in 1..row_idx |-> <<None, seq2[k]>>] \o alignments_list
    ELSE IF col_idx > 0
        THEN [k \in 1..col_idx |-> <<seq1[k], None>>] \o alignments_list
    ELSE alignments_list

\* The pair a branch prepends on the move from (row_idx, col_idx) to previous_idx.
CustomAlignAllPair(seq1, seq2, row_idx, col_idx, previous_idx) ==
    IF previous_idx[1] + 1 = row_idx /\ previous_idx[2] = col_idx
        THEN <<None, seq2[row_idx]>>
    ELSE IF previous_idx[1] = row_idx /\ previous_idx[2] + 1 = col_idx
        THEN <<seq1[col_idx], None>>
    ELSE <<seq1[col_idx], seq2[row_idx]>>

\* One iteration of `while state_stack_for_dfs`: pop the last entry; at an
\* interior cell push one entry per recorded predecessor, in the memo's order;
\* at a boundary cell flush and append to result.
\* dfs = [state_stack_for_dfs, result]; a stack entry is <<row_idx, col_idx, alignments_q>>.
CustomAlignAllStep(dp_index_memo, seq1, seq2, dfs) ==
    LET stack        == dfs.state_stack_for_dfs
        top          == stack[Len(stack)]
        rest         == SubSeq(stack, 1, Len(stack) - 1)
        row_idx      == top[1]
        col_idx      == top[2]
        alignments_q == top[3]
        previous     == dp_index_memo[row_idx][col_idx]
    IN  IF row_idx > 0 /\ col_idx > 0
            THEN [state_stack_for_dfs |->
                      rest \o [k \in 1..Len(previous) |->
                                  <<previous[k][1], previous[k][2],
                                    <<CustomAlignAllPair(seq1, seq2, row_idx, col_idx, previous[k])>>
                                        \o alignments_q>>],
                  result |-> dfs.result]
            ELSE [state_stack_for_dfs |-> rest,
                  result |-> Append(dfs.result,
                                    CustomAlignAllFlush(seq1, seq2, row_idx, col_idx, alignments_q))]

RECURSIVE CustomAlignAllWhile(_, _, _, _)
CustomAlignAllWhile(dp_index_memo, seq1, seq2, dfs) ==
    IF dfs.state_stack_for_dfs # <<>>
        THEN CustomAlignAllWhile(dp_index_memo, seq1, seq2,
                           CustomAlignAllStep(dp_index_memo, seq1, seq2, dfs))
        ELSE dfs

\* The depth-first search of CustomizedLevenshtein.align_all from (len_str2, len_str1).
CustomBacktrackAll(dp_index_memo, seq1, seq2) ==
    CustomAlignAllWhile(dp_index_memo, seq1, seq2,
                  [state_stack_for_dfs |-> << <<Len(seq2), Len(seq1), <<>>>> >>,
                   result |-> <<>>]).result

CustomizedLevenshtein_align_all(self, seq1, seq2) ==
    CustomBacktrackAll(CustomAlignAllTables(self, seq1, seq2).dp_index_memo,
                 seq1, seq2)

(***************************************************************************)
(* The calls.  One behaviour draws the arguments (and, for the class, the  *)
(* instance) and then calls one of the functions on them.                  *)
(***************************************************************************)

\* CustomizedLevenshtein(): every callable at its default
\* (a == b, and the constant 1, which is defined on every value).
DefaultLevenshtein ==
    [is_equal     |-> [p \in Items \X Items |-> p[1] = p[2]],
     insert_cost  |-> [a \in Items \cup {0} |-> 1],
     delete_cost  |-> [a \in Items \cup {0} |-> 1],
     replace_cost |-> [p \in Items \X Items |-> 1]]

\* The per-element costs the instances of the model are built from.
ElementCosts == {1, 2}

\* The is_equal callables drawn: value equality, and a coarser caller-supplied
\* equivalence (like the tests' is_substr) that judges every pair equal.
EqualityTests ==
    {[p \in Items \X Items |-> p[1] = p[2]], [p \in Items \X Items |-> TRUE]}

\* The insert_cost callables drawn: a cost per element, from a function that
\* is also defined on 0 (where it yields the cost of the first item) or one
\* that is defined on the elements only.
InsertCosts ==
    {[a \in Items \cup {0} |-> IF a = 0 THEN f[1] ELSE f[a]] : f \in [Items -> ElementCosts]}
    \cup [Items -> ElementCosts]

\* CustomizedLevenshtein(is_equal=..., insert_cost=..., delete_cost=..., replace_cost=...)
CostModels ==
    [is_equal     : EqualityTests,
     insert_cost  : InsertCosts,
     delete_cost  : [Items -> ElementCosts],
     replace_cost : {[p \in Items \X Items |-> c] : c \in ElementCosts}]

DefaultKwargs == [insert_cost |-> 1, delete_cost |-> 1, replace_cost |-> 1]

Init ==
    /\ before \in InputSeqs
    /\ after \in InputSeqs
    /\ kwargs \in [insert_cost : Costs, delete_cost : Costs, replace_cost : Costs]
    /\ lvnshtn = DefaultLevenshtein
    /\ fn = "none"
    /\ ret = <<>>
    /\ raised = FALSE
    /\ locals = <<>>

CallDistance ==
    /\ fn = "none"
    /\ fn' = "distance"
    /\ ret' = distance(before, after, kwargs.insert_cost, kwargs.delete_cost, kwargs.replace_cost)
    /\ raised' = FALSE
    /\ UNCHANGED <<before, after, kwargs, lvnshtn, locals>>

CallAlign ==
    /\ fn = "none"
    /\ fn' = "align"
    /\ ret' = align(before, after, kwargs.insert_cost, kwargs.delete_cost, kwargs.replace_cost)
    /\ raised' = FALSE
    /\ UNCHANGED <<before, after, kwargs, lvnshtn, locals>>

CallAlignAll ==
    /\ fn = "none"
    /\ fn' = "align_all"
    /\ ret' = align_all(before, after, kwargs.insert_cost, kwargs.delete_cost, kwargs.replace_cost)
    /\ raised' = FALSE
    /\ UNCHANGED <<before, after, kwargs, lvnshtn, locals>>

Next ==
    \/ CallDistance
    \/ CallAlign
    \/ CallAlignAll

\* The module-level functions, on every pair of sequences and every flat cost.
Spec == Init /\ [][Next]_vars

InitCustom ==
    /\ before \in InputSeqs
    /\ after \in InputSeqs
    /\ kwargs = DefaultKwargs
    /\ lvnshtn \in CostModels
    /\ fn = "none"
    /\ ret = <<>>
    /\ raised = FALSE
    /\ locals = <<>>

\* lvnshtn.align(before, after)
CallCustomAlign ==
    /\ fn = "none"
    /\ fn' = "CustomizedLevenshtein.align"
    /\ raised' = CustomRaises(lvnshtn, before, after)
    /\ ret' = IF raised' THEN <<>> ELSE CustomizedLevenshtein_align(lvnshtn, before, after)
    /\ UNCHANGED <<before, after, kwargs, lvnshtn, locals>>

\* lvnshtn.align_all(before, after)
CallCustomAlignAll ==
    /\ fn = "none"
    /\ fn' = "CustomizedLevenshtein.align_all"
    /\ raised' = CustomRaises(lvnshtn, before, after)
    /\ ret' = IF raised' THEN <<>> ELSE CustomizedLevenshtein_align_all(lvnshtn, before, after)
    /\ UNCHANGED <<before, after, kwargs, lvnshtn, locals>>

NextCustom ==
    \/ CallCustomAlign
    \/ CallCustomAlignAll

\* The methods of a CustomizedLevenshtein, on every pair of sequences and
\* every instance of CostModels.
SpecCustom == InitCustom /\ [][NextCustom]_vars

(***************************************************************************)
(* The backtracking of align and align_all, one iteration of the `while`   *)
(* loop per step.  A call fills its tables, then iterates, then returns.   *)
(***************************************************************************)

\* align(before, after, **kwargs) up to its `while`: the nested loop has
\* filled dp_index_memo; col_idx = len_str1, row_idx = len_str2 and
\* alignments_q is an empty deque.
AlignEnter ==
    /\ fn = "none"
    /\ fn' = "align.while"
    /\ locals' =
          [dp_index_memo |->
              AlignTables(before, after, kwargs.insert_cost, kwargs.delete_cost,
                          kwargs.replace_cost).dp_index_memo,
           bt |-> [row_idx |-> Len(after), col_idx |-> Len(before), alignments_q |-> <<>>]]
    /\ UNCHANGED <<before, after, kwargs, lvnshtn, ret, raised>>

\* One iteration of `while row_idx > 0 and col_idx > 0`.
AlignIterate ==
    /\ fn = "align.while"
    /\ locals.bt.row_idx > 0 /\ locals.bt.col_idx > 0
    /\ locals' = [locals EXCEPT !.bt = AlignStep(locals.dp_index_memo, before, after, locals.bt)]
    /\ UNCHANGED <<before, after, kwargs, lvnshtn, fn, ret, raised>>

\* The loop's condition is false: flush the remaining prefix and return.
AlignReturn ==
    /\ fn = "align.while"
    /\ ~(locals.bt.row_idx > 0 /\ locals.bt.col_idx > 0)
    /\ fn' = "align"
    /\ ret' = AlignFlush(before, after, locals.bt.row_idx, locals.bt.col_idx,
                         locals.bt.alignments_q)
    /\ locals' = <<>>
    /\ UNCHANGED <<before, after, kwargs, lvnshtn, raised>>

\* align_all(before, after, **kwargs) up to its `while`: the nested loop has
\* filled dp_index_memo; the stack holds (len_str2, len_str1, deque()) and
\* result is empty.
AlignAllEnter ==
    /\ fn = "none"
    /\ fn' = "align_all.while"
    /\ locals' =
          [dp_index_memo |->
              AlignAllTables(before, after, kwargs.insert_cost, kwargs.delete_cost,
                             kwargs.replace_cost).dp_index_memo,
           dfs |-> [state_stack_for_dfs |-> << <<Len(after), Len(before), <<>>>> >>,
                    result |-> <<>>]]
    /\ UNCHANGED <<before, after, kwargs, lvnshtn, ret, raised>>

\* One iteration of `while state_stack_for_dfs`.
AlignAllIterate ==
    /\ fn = "align_all.while"
    /\ locals.dfs.state_stack_for_dfs # <<>>
    /\ locals' = [locals EXCEPT !.dfs = AlignAllStep(locals.dp_index_memo, before, after, locals.dfs)]
    /\ UNCHANGED <<before, after, kwargs, lvnshtn, fn, ret, raised>>

\* The stack is empty: return result.
AlignAllReturn ==
    /\ fn = "align_all.while"
    /\ locals.dfs.state_stack_for_dfs = <<>>
    /\ fn' = "align_all"
    /\ ret' = locals.dfs.result
    /\ locals' = <<>>
    /\ UNCHANGED <<before, after, kwargs, lvnshtn, raised>>

NextBacktrack ==
    \/ AlignEnter
    \/ AlignIterate
    \/ AlignReturn
    \/ AlignAllEnter
    \/ AlignAllIterate
    \/ AlignAllReturn

\* The steps of a call that has reached its backtracking loop.
BacktrackStep ==
    \/ AlignIterate
    \/ AlignReturn
    \/ AlignAllIterate
    \/ AlignAllReturn

\* align and align_all run one loop iteration at a time, on every pair of
\* sequences and every flat cost.
SpecBacktrack == Init /\ [][NextBacktrack]_vars

(***************************************************************************)
(* The notions the properties are stated in: every alignment of two        *)
(* sequences, its cost, and the sequences it pairs.                        *)
(***************************************************************************)

\* Every alignment of s1 with s2: every sequence of deletions (a, None),
\* insertions (None, b) and pairs (a, b) that consumes s1 and s2 in order.
\* These are the edit scripts that turn s1 into s2.
RECURSIVE AllAlignments(_, _)
AllAlignments(s1, s2) ==
    IF s1 = <<>> /\ s2 = <<>> THEN {<<>>}
    ELSE (IF s1 # <<>>
            THEN {<< <<Head(s1), None>> >> \o r : r \in AllAlignments(Tail(s1), s2)}
            ELSE {})
         \cup
         (IF s2 # <<>>
            THEN {<< <<None, Head(s2)>> >> \o r : r \in AllAlignments(s1, Tail(s2))}
            ELSE {})
         \cup
         (IF s1 # <<>> /\ s2 # <<>>
            THEN {<< <<Head(s1), Head(s2)>> >> \o r : r \in AllAlignments(Tail(s1), Tail(s2))}
            ELSE {})

\* The alignments of every pair of input sequences, tabulated once.
AlignmentsOf == [p \in InputSeqs \X InputSeqs |-> AllAlignments(p[1], p[2])]

\* The cost of an alignment under flat costs: 0 for a pair of equal elements,
\* rc for a pair of unequal elements, ic for (None, b), dc for (a, None).
RECURSIVE CostOfFirst(_, _, _, _, _)
CostOfFirst(al, k, ic, dc, rc) ==
    IF k = 0 THEN 0
    ELSE (IF al[k][1] = None THEN ic
          ELSE IF al[k][2] = None THEN dc
          ELSE IF al[k][1] = al[k][2] THEN 0
          ELSE rc)
         + CostOfFirst(al, k - 1, ic, dc, rc)

AlignmentCost(al, ic, dc, rc) == CostOfFirst(al, Len(al), ic, dc, rc)

\* The cost of an alignment under the callables of a CustomizedLevenshtein.
RECURSIVE CustomAlignmentCost(_, _)
CustomAlignmentCost(al, self) ==
    IF al = <<>> THEN 0
    ELSE (IF Head(al)[1] = None THEN self.insert_cost[Head(al)[2]]
          ELSE IF Head(al)[2] = None THEN self.delete_cost[Head(al)[1]]
          ELSE IF self.is_equal[Head(al)] THEN 0
          ELSE self.replace_cost[Head(al)])
         + CustomAlignmentCost(Tail(al), self)

\* The i-th components of the pairs, None entries removed.
Side(al, i) ==
    LET IsElement(x) == x # None
    IN  SelectSeq([k \in 1..Len(al) |-> al[k][i]], IsElement)

MinOf(S) == CHOOSE x \in S : \A y \in S : x <= y

Range(s) == {s[k] : k \in 1..Len(s)}

IC == kwargs.insert_cost
DC == kwargs.delete_cost
RC == kwargs.replace_cost

\* The least cost of an edit script turning `before` into `after`.
MinScriptCost == MinOf({AlignmentCost(al, IC, DC, RC) : al \in AlignmentsOf[<<before, after>>]})

(***************************************************************************)
(* C1                                                                      *)
(***************************************************************************)

\* C1: distance(before, after, insert_cost, delete_cost, replace_cost) is the
\* minimum, over every edit script turning before into after, of the script's
\* total cost.
C1_DistanceIsMinimum ==
    fn = "distance" => ret = MinScriptCost

\* distance was called on two non-empty, different sequences under unit costs
\* and returned 2.
C1_Witness ==
    /\ fn = "distance"
    /\ Len(before) = MaxLen /\ after # <<>> /\ before # after
    /\ IC = 1 /\ DC = 1 /\ RC = 2
    /\ ret >= 2

(***************************************************************************)
(* C2                                                                      *)
(***************************************************************************)

\* C2: the alignment align returns, and every alignment align_all returns,
\* has a summed cost equal to distance(before, after) under the same costs.
C2_CostEqualsDistance ==
    LET d == distance(before, after, IC, DC, RC)
    IN  /\ fn = "align" => AlignmentCost(ret, IC, DC, RC) = d
        /\ fn = "align_all" => \A k \in 1..Len(ret) : AlignmentCost(ret[k], IC, DC, RC) = d

\* align_all returned several alignments of positive cost, under costs where
\* a replacement is as dear as a deletion and an insertion together.
C2_Witness ==
    /\ fn = "align_all"
    /\ Len(ret) >= 3
    /\ IC = 1 /\ DC = 1 /\ RC = 2
    /\ distance(before, after, IC, DC, RC) >= 2

(***************************************************************************)
(* C3                                                                      *)
(***************************************************************************)

\* C3: in every alignment returned by align or contained in align_all's
\* result, the first components without the None entries are exactly
\* `before` and the second components without them are exactly `after`.
C3_RoundTrip ==
    /\ fn = "align" => Side(ret, 1) = before /\ Side(ret, 2) = after
    /\ fn = "align_all" =>
          \A k \in 1..Len(ret) : Side(ret[k], 1) = before /\ Side(ret[k], 2) = after

\* align stopped at a boundary with part of one sequence left and flushed it:
\* the result starts with a gap pair and also holds a diagonal pair.
C3_Witness ==
    /\ fn = "align"
    /\ Len(before) = MaxLen /\ after # <<>>
    /\ ret[1][2] = None
    /\ \E k \in 1..Len(ret) : ret[k][1] # None /\ ret[k][2] # None

(***************************************************************************)
(* C4                                                                      *)
(***************************************************************************)

C5_AlignIsInAlignAll ==
    fn = "align_all" =>
        /\ Len(ret) >= 1
        /\ (before = <<>> /\ after = <<>>) => ret = << <<>> >>
        /\ align(before, after, IC, DC, RC) \in Range(ret)

\* align_all returned several alignments of two non-empty sequences, and the
\* one align returns on the same arguments is the last of them.
C5_Witness ==
    /\ fn = "align_all"
    /\ before # <<>> /\ after # <<>>
    /\ Len(ret) >= 3
    /\ align(before, after, IC, DC, RC) = ret[Len(ret)]

(***************************************************************************)
(* C6                                                                      *)
(***************************************************************************)

\* PrefixCosts[i][j]: the least cost of turning the first j elements of
\* `before` into the first i elements of `after`.
PrefixCosts ==
    [i \in 0..Len(after) |->
        [j \in 0..Len(before) |->
            distance(SubSeq(before, 1, j), SubSeq(after, 1, i), IC, DC, RC)]]

\* The predecessor of interior cell (i, j) by the priority insert, delete,
\* replace among the candidates that attain the cell's minimum P[i][j].
CanonicalPredecessor(P, i, j) ==
    IF P[i - 1][j] + IC = P[i][j] THEN <<i - 1, j>>
    ELSE IF P[i][j - 1] + DC = P[i][j] THEN <<i, j - 1>>
    ELSE <<i - 1, j - 1>>

\* The alignment read off the canonical predecessors from cell (i, j): the
\* walk to a boundary, then the remaining prefix as insertions or deletions.
RECURSIVE CanonicalAlignment(_, _, _)
CanonicalAlignment(P, i, j) ==
    IF i = 0 THEN [k \in 1..j |-> <<before[k], None>>]
    ELSE IF j = 0 THEN [k \in 1..i |-> <<None, after[k]>>]
    ELSE LET p == CanonicalPredecessor(P, i, j)
         IN  Append(CanonicalAlignment(P, p[1], p[2]),
                    IF p = <<i - 1, j>> THEN <<None, after[i]>>
                    ELSE IF p = <<i, j - 1>> THEN <<before[j], None>>
                    ELSE <<before[j], after[i]>>)

\* C6: at every interior cell align records the insert predecessor when the
\* insert candidate attains the minimum, else the delete predecessor when the
\* delete candidate does, else the diagonal one; and align returns the
\* alignment read off these predecessors from (len(after), len(before)).
C6_CanonicalTieBreak ==
    fn = "align" =>
        LET P    == PrefixCosts
            memo == AlignTables(before, after, IC, DC, RC).dp_index_memo
        IN  /\ \A i \in 1..Len(after), j \in 1..Len(before) :
                  memo[i][j] = CanonicalPredecessor(P, i, j)
            /\ ret = CanonicalAlignment(P, Len(after), Len(before))

\* align was called where, at the last cell, all three candidates attain the
\* minimum, and its alignment ends with the insertion.
C6_Witness ==
    /\ fn = "align"
    /\ Len(before) >= 2 /\ Len(after) >= 2
    /\ IC = 1 /\ DC = 1 /\ RC = 1
    /\ PrefixCosts[Len(after) - 1][Len(before)] + IC = PrefixCosts[Len(after)][Len(before)]
    /\ PrefixCosts[Len(after)][Len(before) - 1] + DC = PrefixCosts[Len(after)][Len(before)]
    /\ PrefixCosts[Len(after) - 1][Len(before) - 1] + RC = PrefixCosts[Len(after)][Len(before)]
    /\ before[Len(before)] # after[Len(after)]
    /\ ret[Len(ret)] = <<None, after[Len(after)]>>

(***************************************************************************)
(* C7                                                                      *)
(***************************************************************************)

\* How far from their ends, from t on, two alignments first differ (-1 if
\* they do not within the shorter one): there their backtracking left a
\* common cell through different predecessors.
RECURSIVE DivergenceFrom(_, _, _)
DivergenceFrom(x, y, t) ==
    IF t >= Len(x) \/ t >= Len(y) THEN -1
    ELSE IF x[Len(x) - t] # y[Len(y) - t] THEN t
    ELSE DivergenceFrom(x, y, t + 1)

Divergence(x, y) == DivergenceFrom(x, y, 0)

\* The move a pair stands for: "insert", "delete" or "replace" (the diagonal).
Move(pair) ==
    IF pair[1] = None THEN "insert" ELSE IF pair[2] = None THEN "delete" ELSE "replace"

\* x and y leave their common cell by different moves, x by the one that
\* `priority` (the position of each of the three moves) puts first.
LeavesFirst(priority, x, y) ==
    LET t == Divergence(x, y)
    IN  /\ t >= 0
        /\ priority[Move(x[Len(x) - t])] < priority[Move(y[Len(y) - t])]

InsertDeleteReplace == [insert |-> 1, delete |-> 2, replace |-> 3]
ReplaceDeleteInsert == [replace |-> 1, delete |-> 2, insert |-> 3]

\* C7 as claimed: in align_all's result the alignments through the insert
\* predecessor of a cell come before those through its delete predecessor,
\* and these before those through its diagonal predecessor.
C7_InsertDeleteReplaceOrder ==
    fn = "align_all" =>
        \A q \in 1..Len(ret) : \A p \in 1..(q - 1) :
            LeavesFirst(InsertDeleteReplace, ret[p], ret[q])

\* C7 as the code has it: the stack is popped from its end, so of the
\* predecessors pushed in the order insert, delete, replace the diagonal one
\* is explored first: the alignments through the diagonal predecessor of a
\* cell come before those through its delete predecessor, and these before
\* those through its insert predecessor.
C7_ReplaceDeleteInsertOrder ==
    fn = "align_all" =>
        \A q \in 1..Len(ret) : \A p \in 1..(q - 1) :
            LeavesFirst(ReplaceDeleteInsert, ret[p], ret[q])

\* align_all returned alignments that leave the last cell by each of the
\* three moves, one of them followed by a further choice.
C7_Witness ==
    /\ fn = "align_all"
    /\ Len(ret) >= 4
    /\ \E p, q, r \in 1..Len(ret) :
          /\ Move(ret[p][Len(ret[p])]) = "replace"
          /\ Move(ret[q][Len(ret[q])]) = "delete"
          /\ Move(ret[r][Len(ret[r])]) = "insert"

(***************************************************************************)
(* C8                                                                      *)
(***************************************************************************)

\* C8: the alignment CustomizedLevenshtein.align returns is optimal under the
\* instance's own callables: its cost equals the value of table cell
\* (len(after), len(before)) and is the minimum over all alignments of
\* `before` with `after`.
C8_CustomAlignIsOptimal ==
    (fn = "CustomizedLevenshtein.align" /\ ~raised) =>
        /\ CustomAlignmentCost(ret, lvnshtn)
              = CustomAlignTables(lvnshtn, before, after).dp_table[Len(after)][Len(before)]
        /\ CustomAlignmentCost(ret, lvnshtn)
              = MinOf({CustomAlignmentCost(al, lvnshtn) : al \in AlignmentsOf[<<before, after>>]})

(***************************************************************************)
(* C9                                                                      *)
(***************************************************************************)

\* The instance's three cost callables are the constant 1 (defined on every
\* value, 0 included) and its is_equal agrees with == on every pair of an
\* element of `before` and an element of `after`.
IsUnitEqualityModel ==
    /\ DOMAIN lvnshtn.insert_cost = Items \cup {0}
    /\ \A a \in DOMAIN lvnshtn.insert_cost : lvnshtn.insert_cost[a] = 1
    /\ \A a \in DOMAIN lvnshtn.delete_cost : lvnshtn.delete_cost[a] = 1
    /\ \A p \in DOMAIN lvnshtn.replace_cost : lvnshtn.replace_cost[p] = 1
    /\ \A a \in Range(before), b \in Range(after) : lvnshtn.is_equal[<<a, b>>] = (a = b)

\* C9: such an instance returns from align_all the same list of alignments, in
\* the same order, as the module-level align_all with its default costs, and
\* from align the same alignment as the module-level align.
C9_CustomEqualsFlat ==
    IsUnitEqualityModel =>
        /\ fn = "CustomizedLevenshtein.align_all" =>
              ~raised /\ ret = align_all(before, after, 1, 1, 1)
        /\ fn = "CustomizedLevenshtein.align" =>
              ~raised /\ ret = align(before, after, 1, 1, 1)

\* align_all was called on an instance with unit costs and ordinary equality
\* and returned three alignments that pair unequal elements or leave gaps.
C9_Witness ==
    /\ fn = "CustomizedLevenshtein.align_all"
    /\ IsUnitEqualityModel
    /\ lvnshtn.is_equal = DefaultLevenshtein.is_equal
    /\ Len(before) = MaxLen /\ Len(after) >= 2
    /\ Len(ret) >= 3

(***************************************************************************)
(* C10                                                                     *)
(***************************************************************************)

\* C10: when insert_cost equals delete_cost, distance(before, after) equals
\* distance(after, before), for any replace_cost.
C10_Symmetric ==
    (fn = "distance" /\ IC = DC) =>
        ret = distance(after, before, IC, DC, RC)

\* distance was called with equal insert and delete cost on sequences of
\* different lengths and returned a positive cost.
C10_Witness ==
    /\ fn = "distance"
    /\ IC = DC /\ IC > 0 /\ RC # IC
    /\ Len(before) = MaxLen /\ Len(after) = 1
    /\ ret > 0

(***************************************************************************)
(* C11                                                                     *)
(***************************************************************************)

\* The sum of delete_cost over the first j elements of seq1, each element
\* contributing its own cost.
RECURSIVE DeleteCostSum(_, _, _)
DeleteCostSum(self, seq1, j) ==
    IF j = 0 THEN 0
    ELSE DeleteCostSum(self, seq1, j - 1) + self.delete_cost[seq1[j]]

\* The sum of insert_cost over the first i elements of seq2.
RECURSIVE InsertCostSum(_, _, _)
InsertCostSum(self, seq2, i) ==
    IF i = 0 THEN 0
    ELSE InsertCostSum(self, seq2, i - 1) + self.insert_cost[seq2[i]]

\* The table of the method that was called, as it stands when the nested loop
\* has ended.
CalledMethodTable ==
    IF fn = "CustomizedLevenshtein.align"
    THEN CustomAlignTables(lvnshtn, before, after).dp_table
    ELSE CustomAlignAllTables(lvnshtn, before, after).dp_table

\* C11: in CustomizedLevenshtein.align and align_all the base row and column
\* of the table are prefix sums of per-element costs: cell(0, j) is the sum of
\* delete_cost(before[k]) for k < j, for every j in 0..len(before), and
\* cell(i, 0) is the sum of insert_cost(after[k]) for k < i, for every i in
\* 0..len(after).
C11_BaseIsPrefixSums ==
    (fn \in {"CustomizedLevenshtein.align", "CustomizedLevenshtein.align_all"} /\ ~raised) =>
        /\ \A j \in 0..Len(before) :
              CalledMethodTable[0][j] = DeleteCostSum(lvnshtn, before, j)
        /\ \A i \in 0..Len(after) :
              CalledMethodTable[i][0] = InsertCostSum(lvnshtn, after, i)

(***************************************************************************)
(* C12                                                                     *)
(***************************************************************************)

\* Every argument a method call applies insert_cost to: those of the table's
\* initialisation, and item2 for every cell of the nested loop.
InsertCostArgs(seq1, seq2) ==
    InitInsertCostArgs(seq1, seq2)
    \cup {seq2[row_idx] : row_idx \in IF seq1 = <<>> THEN {} ELSE 1..Len(seq2)}

\* Every argument a method call applies delete_cost to: those of the table's
\* initialisation, and item1 for every cell of the nested loop.
DeleteCostArgs(seq1, seq2) ==
    InitDeleteCostArgs(seq1, seq2)
    \cup {seq1[col_idx] : col_idx \in IF seq2 = <<>> THEN {} ELSE 1..Len(seq1)}

\* Every pair a method call applies is_equal and replace_cost to:
\* (item1, item2) for every cell of the nested loop.
PairArgs(seq1, seq2) ==
    {<<seq1[col_idx], seq2[row_idx]>> : col_idx \in 1..Len(seq1), row_idx \in 1..Len(seq2)}

\* The instance's callables are defined and non-negative on the sequences'
\* elements.
IsWellFormedInput ==
    /\ \A b \in Range(after) :
          b \in DOMAIN lvnshtn.insert_cost /\ lvnshtn.insert_cost[b] >= 0
    /\ \A a \in Range(before) :
          a \in DOMAIN lvnshtn.delete_cost /\ lvnshtn.delete_cost[a] >= 0
    /\ \A a \in Range(before), b \in Range(after) :
          /\ <<a, b>> \in DOMAIN lvnshtn.is_equal
          /\ <<a, b>> \in DOMAIN lvnshtn.replace_cost
          /\ lvnshtn.replace_cost[<<a, b>>] >= 0

\* C12: CustomizedLevenshtein.align and align_all raise no error on
\* well-formed input: insert_cost is only ever applied to an element of
\* `after`, delete_cost only to an element of `before`, and replace_cost and
\* is_equal only to a (before element, after element) pair, so a callable
\* that is undefined on any other value is never called with one.
C12_NoErrorOnWellFormedInput ==
    (/\ fn \in {"CustomizedLevenshtein.align", "CustomizedLevenshtein.align_all"}
     /\ IsWellFormedInput) =>
        /\ ~raised
        /\ InsertCostArgs(before, after) \subseteq Range(after)
        /\ DeleteCostArgs(before, after) \subseteq Range(before)
        /\ PairArgs(before, after) \subseteq Range(before) \X Range(after)

(***************************************************************************)
(* C13                                                                     *)
(***************************************************************************)

\* The three neighbours a recorded predecessor of (row_idx, col_idx) can be.
Neighbours(row_idx, col_idx) ==
    {<<row_idx - 1, col_idx>>, <<row_idx, col_idx - 1>>, <<row_idx - 1, col_idx - 1>>}

\* What the flush prepends at a boundary cell: the first row_idx elements of
\* `after` as pure insertions, or the first col_idx elements of `before` as
\* pure deletions.
RemainingPrefix(row_idx, col_idx) ==
    IF row_idx > 0 THEN [k \in 1..row_idx |-> <<None, after[k]>>]
                   ELSE [k \in 1..col_idx |-> <<before[k], None>>]

\* A step of align's backtracking: from an interior cell it moves to the
\* recorded predecessor, which is one of the three neighbours, and row + col
\* decreases; otherwise row or col is 0 and the call returns the walk with the
\* remaining prefix flushed in front.
AlignStepDescends ==
    fn = "align.while" =>
        LET row_idx == locals.bt.row_idx
            col_idx == locals.bt.col_idx
        IN  IF row_idx > 0 /\ col_idx > 0
            THEN /\ locals.dp_index_memo[row_idx][col_idx] \in Neighbours(row_idx, col_idx)
                 /\ fn' = "align.while"
                 /\ <<locals'.bt.row_idx, locals'.bt.col_idx>>
                       = locals.dp_index_memo[row_idx][col_idx]
                 /\ locals'.bt.row_idx + locals'.bt.col_idx < row_idx + col_idx
            ELSE /\ row_idx >= 0 /\ col_idx >= 0
                 /\ fn' = "align"
                 /\ ret' = RemainingPrefix(row_idx, col_idx) \o locals.bt.alignments_q

\* A step of align_all's search: the popped entry, if interior, has a
\* non-empty list of predecessors, all of them neighbours, and is replaced on
\* the stack by one entry per predecessor, each with a smaller row + col; if
\* on the boundary, it leaves the stack and its alignment, with the remaining
\* prefix flushed in front, joins the result.  With an empty stack the call
\* returns the result.
AlignAllStepDescends ==
    fn = "align_all.while" =>
        LET stack == locals.dfs.state_stack_for_dfs
        IN  IF stack = <<>>
            THEN fn' = "align_all" /\ ret' = locals.dfs.result
            ELSE LET row_idx  == stack[Len(stack)][1]
                     col_idx  == stack[Len(stack)][2]
                     rest     == SubSeq(stack, 1, Len(stack) - 1)
                     previous == locals.dp_index_memo[row_idx][col_idx]
                     pushed   == locals'.dfs.state_stack_for_dfs
                 IN  /\ fn' = "align_all.while"
                     /\ IF row_idx > 0 /\ col_idx > 0
                        THEN /\ previous # <<>>
                             /\ \A k \in 1..Len(previous) :
                                   previous[k] \in Neighbours(row_idx, col_idx)
                             /\ Len(pushed) = Len(rest) + Len(previous)
                             /\ SubSeq(pushed, 1, Len(rest)) = rest
                             /\ \A k \in 1..Len(previous) :
                                   /\ <<pushed[Len(rest) + k][1], pushed[Len(rest) + k][2]>>
                                         = previous[k]
                                   /\ pushed[Len(rest) + k][1] + pushed[Len(rest) + k][2]
                                         < row_idx + col_idx
                             /\ locals'.dfs.result = locals.dfs.result
                        ELSE /\ row_idx >= 0 /\ col_idx >= 0
                             /\ pushed = rest
                             /\ locals'.dfs.result =
                                   Append(locals.dfs.result,
                                          RemainingPrefix(row_idx, col_idx)
                                             \o stack[Len(stack)][3])

\* The weight of a stack entry at distance n = row_idx + col_idx from the
\* corner: one more than three times the weight of an entry at distance n - 1,
\* so that an entry outweighs any three entries that are nearer to the corner.
RECURSIVE Weight(_)
Weight(n) == IF n <= 0 THEN 1 ELSE 3 * Weight(n - 1) + 1

RECURSIVE StackWeight(_)
StackWeight(stack) ==
    IF stack = <<>> THEN 0
    ELSE Weight(stack[1][1] + stack[1][2]) + StackWeight(Tail(stack))

\* What a running backtracking has left to do, as a natural number: the
\* distance of align's walk from the corner, the weight of align_all's stack.
Remaining ==
    IF fn = "align.while" THEN locals.bt.row_idx + locals.bt.col_idx
    ELSE IF fn = "align_all.while" THEN StackWeight(locals.dfs.state_stack_for_dfs)
    ELSE 0

\* A step of a running backtracking either returns from the call or leaves
\* strictly less to do, and what is left to do is never negative.
RemainingDecreases ==
    fn \in {"align.while", "align_all.while"} =>
        /\ Remaining >= 0
        /\ \/ fn' = "align" /\ fn = "align.while"
           \/ fn' = "align_all" /\ fn = "align_all.while"
           \/ fn' = fn /\ Remaining' >= 0 /\ Remaining' < Remaining

\* C13: backtracking always terminates: in align's loop and on every branch
\* of align_all's search each step from an interior cell moves to a recorded
\* predecessor that is one of the three neighbours (never the unset (-1, -1),
\* never an empty list), so row + col strictly decreases; the walk stops as
\* soon as row or col reaches 0 and the remaining prefix is flushed as pure
\* insertions or pure deletions.  A running backtracking can always take its
\* next step, and every step leaves strictly less of a natural number to do
\* or returns: the stack becomes empty and the call returns after finitely
\* many steps.
C13_BacktrackingTerminates ==
    /\ [](fn \in {"align.while", "align_all.while"} => ENABLED BacktrackStep)
    /\ [][AlignStepDescends /\ AlignAllStepDescends /\ RemainingDecreases]_vars

\* align_all's search is under way with two branches still on the stack; the
\* one to be popped next came down from the interior to row 0 with columns
\* left to flush, and an earlier branch has already been completed.
C13_Witness ==
    /\ fn = "align_all.while"
    /\ Len(locals.dfs.state_stack_for_dfs) >= 2
    /\ Len(locals.dfs.result) >= 1
    /\ LET top == locals.dfs.state_stack_for_dfs[Len(locals.dfs.state_stack_for_dfs)]
       IN  top[1] = 0 /\ top[2] > 0 /\ top[3] # <<>>

====
